---- MODULE Spec2Model ----
(***************************************************************************)
(* Model of graph_eval.py: the graph builder (defgraph), the free-variable *)
(* analysis (graph_free_vars), the layering (topsort) and the three        *)
(* evaluators: the staged generator (graph_compile2gen), the eager         *)
(* function (defnk_compile2func) and the lazy function                     *)
(* (defnk_compile2lazyfunc).                                               *)
(***************************************************************************)
EXTENDS Integers, Sequences, FiniteSets, TLC

\* ------------------------------------------------------------------ bounds

\* Node names are 1..MaxNames.
MaxNames == 3
\* Longest dependency list handed to one registration.
MaxDeps == 2
\* Longest sequence of targets handed to the lazy function.
MaxTargets == 2
\* Longest work stack of the lazy function that is followed; a graph with a
\* dependency cycle makes the stack grow without end.
MaxOrder == 6

Names == 1..MaxNames

\* The value of a node without producer (Python's None) and the producers a
\* definition routine may hand to node().
None == "None"
Func == "func"
Producers == {None, Func}

\* Sequences over S of length at most n.
SeqsUpTo(S, n) == UNION {[1..k -> S] : k \in 0..n}

\* The dependency lists a definition routine hands to node(): duplicate-free,
\* in ascending order of name.
DepLists ==
    {d \in SeqsUpTo(Names, MaxDeps) : \A i \in 1..(Len(d) - 1) : d[i] < d[i + 1]}

\* The target sequences a caller hands to the lazy function: any order,
\* repetitions included.
TargetLists == SeqsUpTo(Names, MaxTargets)

Range(s) == {s[i] : i \in DOMAIN s}

\* The empty mapping (a dict with no key).
EmptyMap == [k \in {} |-> None]

\* d with key k set to v (d[k] = v on a dict).
Put(d, k, v) == [x \in (DOMAIN d) \cup {k} |-> IF x = k THEN v ELSE d[x]]

\* d restricted to the keys in S.
Restrict(d, S) == [x \in S |-> d[x]]

\* d updated with every item of e (d.update(e) on dicts).
Update(d, e) ==
    [x \in (DOMAIN d) \cup (DOMAIN e) |-> IF x \in DOMAIN e THEN e[x] ELSE d[x]]

\* The names of S in ascending order.
RECURSIVE Ascending(_)
Ascending(S) ==
    IF S = {} THEN <<>>
    ELSE LET m == CHOOSE x \in S : \A y \in S : x <= y
         IN  <<m>> \o Ascending(S \ {m})

\* Every sequence that lists the elements of S once each: the orders in which
\* iterating over a Python set may deliver them.
Orderings(S) ==
    {s \in [1..Cardinality(S) -> S] : \A x \in S : \E i \in DOMAIN s : s[i] = x}

VARIABLES
    pc,         \* where the caller is: "define", "raised", "built", "bound",
                \* "gen", "eager", "lazy"
    _graph,     \* defgraph's accumulator, then the graph it returned
    raised,     \* the exception the last registration raised, NoError if none
    registered, \* history: the names whose node() call completed, kept while
                \* the definition routine runs
    layers,     \* what topsort(graph) returned or raised
    kw,         \* the keyword bindings the caller passes to the evaluators
    got,        \* the bindings of the run in progress
    waiting,    \* graph_compile2gen: names offered and not yet received
    wave,       \* graph_compile2gen: the job list of the latest yield
    jobs,       \* the jobs the caller holds and has not yet run
    res,        \* defnk_compile2func.f: the result mapping being collected
    args,       \* defnk_compile2lazyfunc.f: the requested targets
    order,      \* defnk_compile2lazyfunc.f: the work stack
    calls,      \* how often each node's producer was invoked in the latest run
    stagedRes,  \* how the staged generator ended: its final got, or its exception
    eagerRes,   \* what the eager function returned or raised
    lazyRes     \* what the lazy function returned or raised

buildVars == <<pc, _graph, raised, registered>>
runVars == <<got, waiting, wave, jobs, res, args, order, calls>>
outVars == <<layers, stagedRes, eagerRes, lazyRes>>
vars == <<pc, _graph, raised, registered, layers, kw, got, waiting, wave, jobs, res, args,
          order, calls, stagedRes, eagerRes, lazyRes>>

\* ------------------------------------------------------------------ builder

NoError == [kind |-> "none"]

\* The entry the defaultdict creates on first access of a missing key.
DefaultEntry == [value |-> None, requests |-> {}, requested |-> <<>>]

\* _graph[k], creating the default entry when k is missing.
Touch(g, k) == IF k \in DOMAIN g THEN g ELSE Put(g, k, DefaultEntry)

\* The loop over dependencies of node(): for each dep, append name to
\* dep's requested, then assert that dep does not already request name.
\* Stops at the first failed assertion, keeping what was written so far.
RECURSIVE DepLoop(_, _, _, _)
DepLoop(g, name, dependencies, i) ==
    IF i > Len(dependencies) THEN [g |-> g, ok |-> TRUE, dep |-> 0]
    ELSE LET dep == dependencies[i]
             g1 == Touch(g, dep)
             g2 == [g1 EXCEPT ![dep].requested = Append(@, name)]
         IN  IF name \in g2[dep].requests
             THEN [g |-> g2, ok |-> FALSE, dep |-> dep]
             ELSE DepLoop(g2, name, dependencies, i + 1)

\* node() storing the producer before it looks whether the name is taken.
Register_late_check(node, name, dependencies) ==
    /\ pc = "define"
    /\ IF name \in DOMAIN _graph
       THEN /\ raised' = [kind |-> "DuplicateNodeError", name |-> name]
            /\ _graph' = [_graph EXCEPT ![name].value = node]
            /\ UNCHANGED registered
       ELSE LET g1 == [Touch(_graph, name) EXCEPT ![name].value = node]
                r  == DepLoop(g1, name, dependencies, 1)
            IN  IF r.ok
                THEN /\ _graph' = [r.g EXCEPT ![name].requests =
                                        @ \cup Range(dependencies)]
                     /\ raised' = NoError
                     /\ registered' = registered \cup {name}
                ELSE /\ _graph' = r.g
                     /\ raised' = [kind |-> "CyclicDependencyError",
                                   name |-> name, dep |-> r.dep]
                     /\ UNCHANGED registered
    /\ UNCHANGED <<pc, kw, runVars, outVars>>

\* node(node, name, dependencies): one registration.
Register(node, name, dependencies) ==
    /\ pc = "define"
    /\ IF name \in DOMAIN _graph
       THEN /\ raised' = [kind |-> "DuplicateNodeError", name |-> name]
            /\ UNCHANGED <<_graph, registered>>
       ELSE LET g1 == [Touch(_graph, name) EXCEPT ![name].value = node]
                r  == DepLoop(g1, name, dependencies, 1)
            IN  IF r.ok
                THEN /\ _graph' = [r.g EXCEPT ![name].requests =
                                        @ \cup Range(dependencies)]
                     /\ raised' = NoError
                     /\ registered' = registered \cup {name}
                ELSE /\ _graph' = r.g
                     /\ raised' = [kind |-> "CyclicDependencyError",
                                   name |-> name, dep |-> r.dep]
                     /\ UNCHANGED registered
    /\ UNCHANGED <<pc, kw, runVars, outVars>>

\* The definition routine lets the exception of a failed registration
\* escape: defgraph returns nothing.
Escape ==
    /\ pc = "define"
    /\ raised.kind # "none"
    /\ pc' = "raised"
    /\ UNCHANGED <<_graph, raised, registered, kw, runVars, outVars>>

\* The definition routine returns (None) and defgraph returns the graph.
Finish ==
    /\ pc = "define"
    /\ pc' = "built"
    /\ raised' = NoError
    /\ registered' = {}
    /\ UNCHANGED <<_graph, kw, runVars, outVars>>


\* ------------------------------------------------------------------ analysis

\* No result yet.
NoRes == [kind |-> "none"]

\* A call that returned v.
Ok(v) == [kind |-> "ok", value |-> v]

\* graph_free_vars(graph): the names whose value is None.
graph_free_vars(graph) == {k \in DOMAIN graph : graph[k].value = None}

\* _assert_free_vars with its assertion left out.
_assert_free_vars_skip(free_vars, kwd) == TRUE

\* The condition _assert_free_vars asserts: every key of kw is a free variable.
_assert_free_vars(free_vars, kwd) == \A k \in DOMAIN kwd : k \in free_vars

\* topsort's deep_walk(name) with its memo _toposorted and its output list
\* toposorted_vars carried in st. Python recurses until its recursion limit; a
\* chain of calls longer than the number of nodes repeats a node and never
\* ends, so fuel starts at that number and st.overflow stands for the
\* RuntimeError the interpreter raises in the end.
RECURSIVE deep_walk(_, _, _, _)
RECURSIVE WalkChildren(_, _, _, _)
\* deep_walk giving a node the level of its deepest child, the 1+ forgotten.
deep_walk_flat(graph, st, name, fuel) ==
    IF st.overflow THEN [st |-> st, level |-> 0]
    ELSE IF name \in DOMAIN st._toposorted
    THEN [st |-> st, level |-> st._toposorted[name]]
    ELSE IF fuel = 0 THEN [st |-> [st EXCEPT !.overflow = TRUE], level |-> 0]
    ELSE LET node == graph[name]
             sub  == IF Cardinality(node.requests) = 0
                     THEN [st |-> st, level |-> 0]
                     ELSE LET w == WalkChildren(graph, st,
                                       Ascending(node.requests), fuel - 1)
                          IN  [st |-> w.st, level |-> w.level]
         IN  IF sub.st.overflow THEN sub
             ELSE [st |-> [sub.st EXCEPT
                            !._toposorted = Put(@, name, sub.level),
                            !.toposorted_vars = @ \cup {<<sub.level, name>>}],
                   level |-> sub.level]

deep_walk(graph, st, name, fuel) ==
    IF st.overflow THEN [st |-> st, level |-> 0]
    ELSE IF name \in DOMAIN st._toposorted
    THEN [st |-> st, level |-> st._toposorted[name]]
    ELSE IF fuel = 0 THEN [st |-> [st EXCEPT !.overflow = TRUE], level |-> 0]
    ELSE LET node == graph[name]
             sub  == IF Cardinality(node.requests) = 0
                     THEN [st |-> st, level |-> 0]
                     ELSE LET w == WalkChildren(graph, st,
                                       Ascending(node.requests), fuel - 1)
                          IN  [st |-> w.st, level |-> 1 + w.level]
         IN  IF sub.st.overflow THEN sub
             ELSE [st |-> [sub.st EXCEPT
                            !._toposorted = Put(@, name, sub.level),
                            !.toposorted_vars = @ \cup {<<sub.level, name>>}],
                   level |-> sub.level]

\* max(deep_walk(child) for child in node.requests), children a sequence.
WalkChildren(graph, st, children, fuel) ==
    IF Len(children) = 0 THEN [st |-> st, level |-> -1]
    ELSE LET first == deep_walk(graph, st, Head(children), fuel)
             rest  == WalkChildren(graph, first.st, Tail(children), fuel)
         IN  [st |-> rest.st,
              level |-> IF first.level > rest.level THEN first.level
                        ELSE rest.level]

\* The loop "for name in graph: deep_walk(name)".
RECURSIVE WalkAll(_, _, _)
WalkAll(graph, st, todo) ==
    IF Len(todo) = 0 THEN st
    ELSE WalkAll(graph,
                 deep_walk(graph, st, Head(todo), Cardinality(DOMAIN graph)).st,
                 Tail(todo))

\* groupby(sorted(toposorted_vars), level): one list of names per level,
\* levels ascending, names ascending within a level.
GroupLayers(toposorted_vars) ==
    LET levels == Ascending({p[1] : p \in toposorted_vars})
    IN  [i \in DOMAIN levels |->
            Ascending({p[2] : p \in {q \in toposorted_vars : q[1] = levels[i]}})]

\* topsort(graph): the layers, or the RuntimeError of an endless recursion.
topsort(graph) ==
    LET st0 == [_toposorted |-> EmptyMap, toposorted_vars |-> {},
                overflow |-> FALSE]
        st  == WalkAll(graph, st0, Ascending(DOMAIN graph))
    IN  IF st.overflow THEN [kind |-> "RuntimeError"]
        ELSE Ok(GroupLayers(st.toposorted_vars))

\* The caller runs topsort on the built graph.
Topsort ==
    /\ pc = "built"
    /\ layers.kind = "none"
    /\ layers' = topsort(_graph)
    /\ UNCHANGED <<buildVars, kw, runVars, stagedRes, eagerRes, lazyRes>>

\* ------------------------------------------------------------------ bindings

\* The value the caller binds to key k.
Input(k) == [src |-> "kw", node |-> k, env |-> EmptyMap]

\* What producer k returns when called with the keyword arguments env. The
\* producers are arbitrary pure functions, so the result is kept as the term.
Apply(k, env) == [src |-> "call", node |-> k, env |-> env]

\* The caller chooses the keyword bindings it evaluates the graph with.
Bind(keys) ==
    /\ pc = "built"
    /\ pc' = "bound"
    /\ kw' = [k \in keys |-> Input(k)]
    /\ UNCHANGED <<_graph, raised, registered, runVars, outVars>>

\* The locals of a run, once the run is over.
NoCalls == [k \in Names |-> 0]

\* ------------------------------------------------------------------ staged

\* The list comprehension without its test of waiting.
new_to_ask_reoffers(graph, g, w) ==
    {k \in DOMAIN graph :
        /\ k \notin DOMAIN g
        /\ \A r \in graph[k].requests : r \in DOMAIN g}

\* The list comprehension of graph_compile2gen: the names not in got, not in
\* waiting, whose requests are all in got.
new_to_ask(graph, g, w) ==
    {k \in DOMAIN graph :
        /\ k \notin DOMAIN g
        /\ k \notin w
        /\ \A r \in graph[k].requests : r \in DOMAIN g}

\* One yielded job: (k, graph[k].value, got restricted to graph[k].requests).
Job(graph, g, k) ==
    [k |-> k, func |-> graph[k].value, env |-> Restrict(g, graph[k].requests)]

\* graph_keys.symmetric_difference(got), the condition of the while loop.
symmetric_difference(a, b) == (a \ b) \cup (b \ a)

\* GenLoop taking a name in waiting for resolved when it looks for ready
\* names.
GenLoop_waiting_counts(graph, g, w) ==
    IF symmetric_difference(DOMAIN graph, DOMAIN g) = {}
    THEN [kind |-> "stop", got |-> g, waiting |-> w, wave |-> {}]
    ELSE LET asked == {k \in DOMAIN graph :
                          /\ k \notin DOMAIN g
                          /\ k \notin w
                          /\ \A r \in graph[k].requests : r \in DOMAIN g \cup w}
         IN  [kind |-> "yield", got |-> g, waiting |-> w \cup asked,
              wave |-> {[k |-> k, func |-> graph[k].value,
                         env |-> Restrict(g, graph[k].requests \cap DOMAIN g)] :
                        k \in asked}]

\* The generator from the head of its while loop to its next yield, or to its
\* end (StopIteration) when got covers the graph.
GenLoop(graph, g, w) ==
    IF symmetric_difference(DOMAIN graph, DOMAIN g) = {}
    THEN [kind |-> "stop", got |-> g, waiting |-> w, wave |-> {}]
    ELSE LET asked == new_to_ask(graph, g, w)
         IN  [kind |-> "yield", got |-> g, waiting |-> w \cup asked,
              wave |-> {Job(graph, g, k) : k \in asked}]

\* gen.next() on a fresh generator: the check of the keys, then the loop.
GenStart(graph, kwd) ==
    IF ~_assert_free_vars(graph_free_vars(graph), kwd)
    THEN [kind |-> "UnknownInputError", got |-> kwd, waiting |-> {}, wave |-> {}]
    ELSE GenLoop(graph, kwd, {})

\* GenSend without its loop over just_got: the mapping is ignored.
GenSend_ignores(graph, g, w, just_got) ==
    IF \E k \in DOMAIN just_got : k \notin w
    THEN [kind |-> "KeyError", got |-> g, waiting |-> w, wave |-> {}]
    ELSE GenLoop(graph, g, w)

\* GenSend with waiting.discard(k) for waiting.remove(k): a key that is not
\* waiting enters got all the same.
GenSend_discard(graph, g, w, just_got) ==
    GenLoop(graph, Update(g, just_got), w \ DOMAIN just_got)

\* gen.send(just_got): each key leaves waiting (KeyError when it is not
\* there) and enters got, then the loop goes on.
GenSend(graph, g, w, just_got) ==
    IF \E k \in DOMAIN just_got : k \notin w
    THEN [kind |-> "KeyError", got |-> g, waiting |-> w, wave |-> {}]
    ELSE GenLoop(graph, Update(g, just_got), w \ DOMAIN just_got)

\* dict((j_key, j_func(**j_env)) for j_key, j_func, j_env in J).
RunJobs(J) == [k \in {j.k : j \in J} |->
                  Apply(k, (CHOOSE j \in J : j.k = k).env)]

\* calls with one more invocation for each name in S.
Invoked(c, S) == [k \in DOMAIN c |-> IF k \in S THEN c[k] + 1 ELSE c[k]]

\* The caller creates the generator and asks for its first wave.
StagedStart ==
    /\ pc = "bound"
    /\ stagedRes.kind = "none"
    /\ LET r == GenStart(_graph, kw)
       IN  /\ calls' = NoCalls
           /\ IF r.kind = "yield"
              THEN /\ pc' = "gen"
                   /\ got' = r.got
                   /\ waiting' = r.waiting
                   /\ wave' = r.wave
                   /\ jobs' = r.wave
                   /\ UNCHANGED stagedRes
              ELSE /\ stagedRes' = IF r.kind = "stop" THEN Ok(r.got)
                                   ELSE [kind |-> r.kind]
                   /\ UNCHANGED <<pc, got, waiting, wave, jobs>>
    /\ UNCHANGED <<_graph, raised, registered, kw, res, args, order, layers, eagerRes,
                   lazyRes>>

\* What the generator does with the mapping the caller sends.
StagedSend(just_got, left) ==
    LET r == GenSend(_graph, got, waiting, just_got)
    IN  IF r.kind = "yield"
        THEN /\ got' = r.got
             /\ waiting' = r.waiting
             /\ wave' = r.wave
             /\ jobs' = left \cup r.wave
             /\ UNCHANGED <<pc, stagedRes>>
        ELSE /\ stagedRes' = IF r.kind = "stop" THEN Ok(r.got)
                             ELSE [kind |-> r.kind]
             /\ pc' = "bound"
             /\ got' = EmptyMap
             /\ waiting' = {}
             /\ wave' = {}
             /\ jobs' = {}

\* The caller runs some of the jobs it holds (one, as the serial loop of
\* main, several, or all, as its parallel loop) and sends their results.
\* Calling an absent producer raises TypeError in the caller.
Submit(J) ==
    /\ pc = "gen"
    /\ J \subseteq jobs
    /\ IF \E j \in J : j.func = None
       THEN /\ stagedRes' = [kind |-> "TypeError"]
            /\ pc' = "bound"
            /\ got' = EmptyMap
            /\ waiting' = {}
            /\ wave' = {}
            /\ jobs' = {}
            /\ UNCHANGED calls
       ELSE /\ calls' = Invoked(calls, {j.k : j \in J})
            /\ StagedSend(RunJobs(J), jobs \ J)
    /\ UNCHANGED <<_graph, raised, registered, kw, res, args, order, layers, eagerRes,
                   lazyRes>>

\* The caller sends a result for names it holds no job for.
SubmitStray(S) ==
    /\ pc = "gen"
    /\ S # {}
    /\ S \cap {j.k : j \in jobs} = {}
    /\ StagedSend([k \in S |-> Input(k)], jobs)
    /\ UNCHANGED <<_graph, raised, registered, kw, res, args, order, calls, layers,
                   eagerRes, lazyRes>>

\* ------------------------------------------------------------------ eager

\* f(**kw) of defnk_compile2func up to its first gen.next(): the two
\* assertions on the keys, then res = {} and the first wave.
EagerCall ==
    /\ pc = "bound"
    /\ eagerRes.kind = "none"
    /\ calls' = NoCalls
    /\ LET free_vars    == graph_free_vars(_graph)
           not_provided == free_vars \ DOMAIN kw
           r            == GenStart(_graph, kw)
       IN  IF ~_assert_free_vars(free_vars, kw)
           THEN /\ eagerRes' = [kind |-> "UnknownInputError"]
                /\ UNCHANGED <<pc, got, waiting, wave, jobs, res>>
           ELSE IF Cardinality(not_provided) # 0
           THEN /\ eagerRes' = [kind |-> "MissingInputError",
                                names |-> not_provided]
                /\ UNCHANGED <<pc, got, waiting, wave, jobs, res>>
           ELSE IF r.kind = "yield"
           THEN /\ pc' = "eager"
                /\ res' = EmptyMap
                /\ got' = r.got
                /\ waiting' = r.waiting
                /\ wave' = r.wave
                /\ jobs' = r.wave
                /\ UNCHANGED eagerRes
           ELSE /\ eagerRes' = IF r.kind = "stop" THEN Ok(EmptyMap)
                               ELSE [kind |-> r.kind]
                /\ UNCHANGED <<pc, got, waiting, wave, jobs, res>>
    /\ UNCHANGED <<_graph, raised, registered, kw, args, order, layers, stagedRes, lazyRes>>

\* One turn of f's while loop: run every job of the wave, merge the results
\* into res and send them; StopIteration ends the loop and f returns res.
EagerStep ==
    /\ pc = "eager"
    /\ IF \E j \in jobs : j.func = None
       THEN /\ eagerRes' = [kind |-> "TypeError"]
            /\ pc' = "bound"
            /\ got' = EmptyMap
            /\ waiting' = {}
            /\ wave' = {}
            /\ jobs' = {}
            /\ res' = EmptyMap
            /\ UNCHANGED calls
       ELSE LET partial_res == RunJobs(jobs)
                res1        == Update(res, partial_res)
                r           == GenSend(_graph, got, waiting, partial_res)
            IN  /\ calls' = Invoked(calls, DOMAIN partial_res)
                /\ IF r.kind = "yield"
                   THEN /\ got' = r.got
                        /\ waiting' = r.waiting
                        /\ wave' = r.wave
                        /\ jobs' = r.wave
                        /\ res' = res1
                        /\ UNCHANGED <<pc, eagerRes>>
                   ELSE /\ eagerRes' = IF r.kind = "stop" THEN Ok(res1)
                                       ELSE [kind |-> r.kind]
                        /\ pc' = "bound"
                        /\ got' = EmptyMap
                        /\ waiting' = {}
                        /\ wave' = {}
                        /\ jobs' = {}
                        /\ res' = EmptyMap
    /\ UNCHANGED <<_graph, raised, registered, kw, args, order, layers, stagedRes, lazyRes>>

\* ------------------------------------------------------------------ lazy

\* The work stack starting with every name of the graph on top of the
\* targets.
list_args_and_graph(a) == a \o Ascending(DOMAIN _graph \ Range(a))

\* order = list(args): the work stack starts as the targets.
list_args(a) == a

\* f(*args, **kw) of defnk_compile2lazyfunc up to its while loop.
LazyCall(a) ==
    /\ pc = "bound"
    /\ lazyRes.kind = "none"
    /\ calls' = NoCalls
    /\ IF ~_assert_free_vars(graph_free_vars(_graph), kw)
       THEN /\ lazyRes' = [kind |-> "UnknownInputError"]
            /\ UNCHANGED <<pc, got, args, order>>
       ELSE /\ pc' = "lazy"
            /\ got' = kw
            /\ args' = a
            /\ order' = list_args(a)
            /\ UNCHANGED lazyRes
    /\ UNCHANGED <<_graph, raised, registered, kw, waiting, wave, jobs, res, layers,
                   stagedRes, eagerRes>>

\* The popped item is never taken for resolved.
item_in_got_never(g, item) == FALSE

\* if item in got: the popped item is resolved already.
item_in_got(g, item) == item \in DOMAIN g

\* The requests of item that are not in got yet.
not_provided_for_item(graph, g, item) ==
    {req \in graph[item].requests : req \notin DOMAIN g}

\* f leaves by an exception.
LazyRaise(kind) ==
    /\ lazyRes' = [kind |-> kind]
    /\ pc' = "bound"
    /\ got' = EmptyMap
    /\ order' = <<>>
    /\ UNCHANGED <<args, calls>>

\* One turn of the while loop: pop an item; skip it when resolved; push it
\* back with its unresolved requests on top when it has any; else call its
\* producer and keep the result.
LazyStep ==
    /\ pc = "lazy"
    /\ \E asked \in Range(args) : asked \notin DOMAIN got
    /\ IF Len(order) = 0 THEN LazyRaise("IndexError")
       ELSE LET item  == order[Len(order)]
                below == SubSeq(order, 1, Len(order) - 1)
            IN  IF item_in_got(got, item)
                THEN /\ order' = below
                     /\ UNCHANGED <<pc, got, args, calls, lazyRes>>
                ELSE IF item \notin DOMAIN _graph THEN LazyRaise("KeyError")
                ELSE LET requests     == _graph[item].requests
                         not_provided == not_provided_for_item(_graph, got, item)
                     IN  IF Cardinality(not_provided) > 0
                         THEN IF \E req \in not_provided :
                                     req \in graph_free_vars(_graph)
                              THEN LazyRaise("MissingInputError")
                              ELSE /\ Len(order) + Cardinality(not_provided)
                                         <= MaxOrder
                                   /\ \E pushed \in Orderings(not_provided) :
                                          order' = below \o <<item>> \o pushed
                                   /\ UNCHANGED <<pc, got, args, calls, lazyRes>>
                         ELSE IF _graph[item].value = None
                              THEN LazyRaise("TypeError")
                              ELSE /\ got' = Put(got, item,
                                                 Apply(item, Restrict(got, requests)))
                                   /\ calls' = Invoked(calls, {item})
                                   /\ order' = below
                                   /\ UNCHANGED <<pc, args, lazyRes>>
    /\ UNCHANGED <<_graph, raised, registered, kw, waiting, wave, jobs, res, layers,
                   stagedRes, eagerRes>>

\* The loop is over: assert len(order) == 0, then return the requested items.
LazyReturn ==
    /\ pc = "lazy"
    /\ \A asked \in Range(args) : asked \in DOMAIN got
    /\ lazyRes' = IF Len(order) = 0
                  THEN Ok([asked \in Range(args) |-> got[asked]])
                  ELSE [kind |-> "AssertionError"]
    /\ pc' = "bound"
    /\ got' = EmptyMap
    /\ order' = <<>>
    /\ UNCHANGED <<_graph, raised, registered, kw, waiting, wave, jobs, res, args, calls,
                   layers, stagedRes, eagerRes>>

\* ------------------------------------------------------------------ specifications

Init ==
    /\ pc = "define"
    /\ _graph = [k \in {} |-> DefaultEntry]
    /\ raised = NoError
    /\ registered = {}
    /\ layers = NoRes
    /\ kw = EmptyMap
    /\ got = EmptyMap
    /\ waiting = {}
    /\ wave = {}
    /\ jobs = {}
    /\ res = EmptyMap
    /\ args = <<>>
    /\ order = <<>>
    /\ calls = NoCalls
    /\ stagedRes = NoRes
    /\ eagerRes = NoRes
    /\ lazyRes = NoRes

\* The definition routine: any registrations, then it returns or raises.
Define ==
    \/ \E node \in Producers, name \in Names, dependencies \in DepLists :
           Register(node, name, dependencies)
    \/ Escape
    \/ Finish

\* The caller steps the generator by hand.
Staged ==
    \/ StagedStart
    \/ \E J \in SUBSET jobs : Submit(J)
    \/ \E S \in SUBSET Names : SubmitStray(S)

\* The builder and the layering alone.
NextTopsort == Define \/ Topsort
SpecTopsort == Init /\ [][NextTopsort]_vars

\* The builder and the staged generator alone.
NextStaged == Define \/ (\E keys \in SUBSET Names : Bind(keys)) \/ Staged
SpecStaged == Init /\ [][NextStaged]_vars

\* The builder and the eager function alone.
NextEager ==
    Define \/ (\E keys \in SUBSET Names : Bind(keys)) \/ EagerCall \/ EagerStep
SpecEager == Init /\ [][NextEager]_vars

\* The builder and the lazy function alone.
NextLazy ==
    \/ Define
    \/ \E keys \in SUBSET Names : Bind(keys)
    \/ \E a \in TargetLists : LazyCall(a)
    \/ LazyStep
    \/ LazyReturn
SpecLazy == Init /\ [][NextLazy]_vars

\* The whole program in the order of main(): the graph is built and layered,
\* then evaluated with one set of bindings by the staged generator, by the
\* eager function and by the lazy function, one after the other.
Next ==
    \/ Define
    \/ Topsort
    \/ \E keys \in SUBSET Names : layers.kind # "none" /\ Bind(keys)
    \/ Staged
    \/ stagedRes.kind # "none" /\ EagerCall
    \/ EagerStep
    \/ \E a \in TargetLists : eagerRes.kind # "none" /\ LazyCall(a)
    \/ LazyStep
    \/ LazyReturn

Spec == Init /\ [][Next]_vars

\* The staged generator with a caller that only sends results of jobs it
\* holds, and that keeps running the jobs it holds.
SubmitSome == \E J \in SUBSET jobs : J # {} /\ Submit(J)
NextStagedFair ==
    \/ Define
    \/ \E keys \in SUBSET Names : Bind(keys)
    \/ StagedStart
    \/ \E J \in SUBSET jobs : Submit(J)
SpecStagedFair == Init /\ [][NextStagedFair]_vars /\ WF_vars(SubmitSome)

\* ------------------------------------------------------------------ properties

\* The names reachable from S through requests edges, S included.
RECURSIVE Closure(_, _)
Closure(graph, S) ==
    LET next == S \cup UNION {graph[k].requests : k \in S \cap DOMAIN graph}
    IN  IF next = S THEN S ELSE Closure(graph, next)

\* No name reaches itself through requests edges.
Acyclic(graph) ==
    \A k \in DOMAIN graph : k \notin Closure(graph, graph[k].requests)

\* The bindings are exactly the free variables of the graph.
ExactBindings == DOMAIN kw = graph_free_vars(_graph)

\* The value of name k in an acyclic graph under bindings kwd.
RECURSIVE Resolved(_, _, _)
Resolved(graph, kwd, k) ==
    IF k \in DOMAIN kwd THEN kwd[k]
    ELSE Apply(k, [r \in graph[k].requests |-> Resolved(graph, kwd, r)])

\* The index of the layer that holds name k.
LayerOf(L, k) == CHOOSE i \in DOMAIN L : k \in Range(L[i])

\* C1: for an acyclic graph and bindings of exactly its free variables, the
\* mapping the eager function returns, the final got of the hand-stepped
\* generator and the mapping the lazy function returns when all names of the
\* graph are requested are the same mapping.
C1_ThreeEvaluatorsAgree ==
    ( /\ stagedRes.kind # "none"
      /\ eagerRes.kind # "none"
      /\ lazyRes.kind # "none"
      /\ Acyclic(_graph)
      /\ ExactBindings
      /\ Range(args) = DOMAIN _graph )
    => /\ stagedRes.kind = "ok"
       /\ eagerRes.kind = "ok"
       /\ lazyRes.kind = "ok"
       /\ eagerRes.value = stagedRes.value
       /\ lazyRes.value = stagedRes.value

\* C2: on an acyclic graph topsort returns layers in which every name of the
\* graph sits, and for every edge dep -> name the layer of dep comes strictly
\* before the layer of name.
C2_LayersRespectEdges ==
    (layers.kind # "none" /\ Acyclic(_graph))
    => /\ layers.kind = "ok"
       /\ \A name \in DOMAIN _graph :
             /\ \E i \in DOMAIN layers.value : name \in Range(layers.value[i])
             /\ \A dep \in _graph[name].requests :
                   LayerOf(layers.value, dep) < LayerOf(layers.value, name)

\* C2 witness: a graph with a chain of three names was layered into three
\* layers.
C2_Witness ==
    /\ layers.kind = "ok"
    /\ Acyclic(_graph)
    /\ Len(layers.value) = 3
    /\ \E name \in DOMAIN _graph : Cardinality(_graph[name].requests) = 2

\* C3: in a call of the lazy function a producer is invoked only for names in
\* the dependency closure of the requested targets.
C3_LazyInvokesOnlyClosure ==
    \A k \in Names : calls[k] > 0 => k \in Closure(_graph, Range(args))

\* C3 witness: on a graph with a bound free variable the lazy function
\* returned after invoking a producer, while the graph holds a node with a
\* producer outside the closure of the targets.
C3_Witness ==
    /\ lazyRes.kind = "ok"
    /\ ExactBindings
    /\ DOMAIN kw # {}
    /\ \E k \in Names : calls[k] > 0
    /\ \E k \in DOMAIN _graph :
          /\ _graph[k].value # None
          /\ k \notin Closure(_graph, Range(args))
          /\ calls[k] = 0

\* C4: on an acyclic graph with all free variables bound, for any sequence of
\* targets of the graph, the lazy function ends without error and returns
\* the mapping of exactly the requested names to their resolved values.
C4_LazyReturnsRequested ==
    ( /\ lazyRes.kind # "none"
      /\ Acyclic(_graph)
      /\ ExactBindings
      /\ Range(args) \subseteq DOMAIN _graph )
    => /\ lazyRes.kind = "ok"
       /\ DOMAIN lazyRes.value = Range(args)
       /\ \A k \in Range(args) : lazyRes.value[k] = Resolved(_graph, kw, k)

\* C5: on an acyclic graph with exactly the free variables bound, the mapping
\* the eager function returns has every name of the graph as key, the bound
\* free variables included, each with its resolved value.
C5_EagerReturnsEveryName ==
    (eagerRes.kind # "none" /\ Acyclic(_graph) /\ ExactBindings)
    => /\ eagerRes.kind = "ok"
       /\ DOMAIN eagerRes.value = DOMAIN _graph
       /\ \A k \in DOMAIN _graph : eagerRes.value[k] = Resolved(_graph, kw, k)

\* C6: the eager function checks its bindings before it invokes any
\* producer: a key that is no free variable makes it raise UnknownInputError;
\* otherwise an absent free variable makes it raise MissingInputError naming
\* every absent free variable; in both cases no producer was invoked, and no
\* producer is ever invoked under bindings that are not exactly the free
\* variables.
C6_EagerValidatesFirst ==
    LET free_vars == graph_free_vars(_graph)
        unknown   == DOMAIN kw \ free_vars
        missing   == free_vars \ DOMAIN kw
    IN  /\ (pc = "eager" \/ \E k \in Names : calls[k] > 0) => ExactBindings
        /\ (eagerRes.kind # "none" /\ unknown # {})
              => eagerRes.kind = "UnknownInputError" /\ calls = NoCalls
        /\ (eagerRes.kind # "none" /\ unknown = {} /\ missing # {})
              => /\ eagerRes.kind = "MissingInputError"
                 /\ eagerRes.names = missing
                 /\ calls = NoCalls

\* C6 witness: the eager function raised MissingInputError naming two absent
\* free variables of a graph that holds a producer.
C6_Witness ==
    /\ eagerRes.kind = "MissingInputError"
    /\ Cardinality(eagerRes.names) = 2
    /\ \E k \in DOMAIN _graph : _graph[k].value # None

\* C7: the lazy function checks its bindings like the eager one: a key that
\* is no free variable makes it raise UnknownInputError, and an absent free
\* variable makes it raise MissingInputError, whatever the targets are.
C7_LazyValidatesLikeEager ==
    LET free_vars == graph_free_vars(_graph)
        unknown   == DOMAIN kw \ free_vars
        missing   == free_vars \ DOMAIN kw
    IN  /\ (lazyRes.kind # "none" /\ unknown # {})
              => lazyRes.kind = "UnknownInputError"
        /\ (lazyRes.kind # "none" /\ unknown = {} /\ missing # {}
                /\ Range(args) \subseteq DOMAIN _graph)
              => lazyRes.kind = "MissingInputError"

\* C8: a generator started with bindings that are not exactly the free
\* variables of the graph fails (UnknownInputError for a key that is no free
\* variable, MissingInputError for an absent free variable) and never offers
\* a job.
C8_StagedRejectsInexactBindings ==
    LET free_vars == graph_free_vars(_graph)
        unknown   == DOMAIN kw \ free_vars
        missing   == free_vars \ DOMAIN kw
    IN  /\ pc = "gen" => ExactBindings
        /\ (stagedRes.kind # "none" /\ unknown # {})
              => stagedRes.kind = "UnknownInputError"
        /\ (stagedRes.kind # "none" /\ unknown = {} /\ missing # {})
              => stagedRes.kind = "MissingInputError"

\* C9: in every wave the generator yields, every request of every offered
\* job is in got, hence none is in waiting or offered in the same wave, and
\* the job's inputs are got restricted to its requests.
C9_WaveJobsIndependent ==
    pc = "gen" =>
        \A j \in wave :
            LET requests == _graph[j.k].requests
            IN  /\ requests \subseteq DOMAIN got
                /\ requests \cap waiting = {}
                /\ requests \cap {i.k : i \in wave} = {}
                /\ j.func = _graph[j.k].value
                /\ DOMAIN j.env = requests
                /\ \A r \in requests : j.env[r] = got[r]

\* C9 witness: after a partial submission the generator yielded a wave with a
\* job that has inputs, while a job of an earlier wave is still waiting.
C9_Witness ==
    /\ pc = "gen"
    /\ ExactBindings
    /\ \E j \in wave : DOMAIN j.env # {}
    /\ waiting \ {j.k : j \in wave} # {}

\* The generator is suspended with nothing ready, nothing waiting and names
\* still unresolved.
Deadlock ==
    /\ pc = "gen"
    /\ waiting = {}
    /\ new_to_ask(_graph, got, waiting) = {}
    /\ DOMAIN got # DOMAIN _graph

\* The generator ended with got holding every name of the graph.
StagedDone ==
    /\ stagedRes.kind = "ok"
    /\ DOMAIN stagedRes.value = DOMAIN _graph

\* C10: on an acyclic graph with exactly the free variables bound, with a
\* caller that keeps sending the results of the jobs it was offered, in any
\* batching, the generator never deadlocks and ends with got holding every
\* name of the graph.
C10_StagedTerminates ==
    /\ []((Acyclic(_graph) /\ ExactBindings) => ~Deadlock)
    /\ (pc = "gen" /\ Acyclic(_graph) /\ ExactBindings) ~> StagedDone

\* C10 witness: the generator ended on an acyclic graph of three names, two
\* of them computed.
C10_Witness ==
    /\ StagedDone
    /\ Acyclic(_graph)
    /\ ExactBindings
    /\ Cardinality(DOMAIN _graph) = 3
    /\ Cardinality(DOMAIN _graph \ DOMAIN kw) = 2

\* C11: the staged driver is never left suspended, and the eager loop never
\* left turning, with no name ready, no name waiting and got short of the
\* graph: that situation is reported as a DeadlockError instead.
C11_DeadlockReported ==
    pc \in {"gen", "eager"} =>
        ~ ( /\ new_to_ask(_graph, got, waiting) = {}
            /\ waiting = {}
            /\ DOMAIN got # DOMAIN _graph )

\* C12: a registration of a name that is already registered raises
\* DuplicateNodeError for that name and leaves the accumulated graph, every
\* entry's value, requests and requested, as it was.
C12_DuplicateLeavesGraph ==
    [][\A node \in Producers, name \in Names, dependencies \in DepLists :
          (name \in registered /\ Register(node, name, dependencies))
              => /\ raised'.kind = "DuplicateNodeError"
                 /\ raised'.name = name
                 /\ _graph' = _graph
                 /\ registered' = registered]_vars

\* C12 witness: a registration has just failed as a duplicate of a registered
\* node that has a producer and dependencies, one of them a forward
\* reference.
C12_Witness ==
    /\ pc = "define"
    /\ raised.kind = "DuplicateNodeError"
    /\ raised.name \in registered
    /\ _graph[raised.name].value = Func
    /\ _graph[raised.name].requests \ registered # {}

\* C13: once A is registered with B among its dependencies, registering the
\* not yet registered B with A among its dependencies raises
\* CyclicDependencyError.
C13_ReverseEdgeIsCyclicError ==
    [][\A node \in Producers, name \in Names, dependencies \in DepLists :
          ( /\ Register(node, name, dependencies)
            /\ name \notin registered
            /\ \E dep \in Range(dependencies) :
                   /\ dep # name
                   /\ dep \in registered
                   /\ name \in _graph[dep].requests )
              => raised'.kind = "CyclicDependencyError"]_vars

\* C14: registering a name that so far is only a forward reference (named as
\* a dependency of a registered node, not registered itself), with
\* dependencies that do not request it, succeeds: the name is registered with
\* the given producer and keeps the dependents recorded in its requested.
C14_ForwardReferenceRegisters ==
    [][\A node \in Producers, name \in Names, dependencies \in DepLists :
          ( /\ Register(node, name, dependencies)
            /\ name \in DOMAIN _graph
            /\ name \notin registered
            /\ \A dep \in Range(dependencies) \cap DOMAIN _graph :
                   name \notin _graph[dep].requests )
              => /\ raised'.kind = "none"
                 /\ name \in registered'
                 /\ _graph'[name].value = node
                 /\ Range(_graph[name].requested)
                        \subseteq Range(_graph'[name].requested)]_vars

\* C15: the graph defgraph returns has no cycle of requests edges, of any
\* length, a node requesting itself included.
C15_BuiltGraphAcyclic == pc = "built" => Acyclic(_graph)

\* C16: in the graph defgraph returns, a node without producer has no
\* requests.
C16_FreeVariablesRequestNothing ==
    pc = "built" =>
        \A k \in graph_free_vars(_graph) : _graph[k].requests = {}

\* C17: topsort on a graph with a dependency cycle ends with a
\* CyclicDependencyError, not with the recursion running out of stack.
C17_TopsortReportsCycle ==
    (layers.kind # "none" /\ ~Acyclic(_graph))
        => layers.kind = "CyclicDependencyError"

\* C18: in a run of the generator a name is offered at most once. Every
\* wave is disjoint from the names offered before: those are in waiting or
\* in got, the names of a wave enter waiting, and a name leaves waiting only
\* into got.
C18_OfferedOnce ==
    /\ [](pc = "gen" => /\ {j.k : j \in wave} \subseteq waiting
                        /\ {j.k : j \in wave} \cap DOMAIN got = {})
    /\ [][(pc = "gen" /\ pc' = "gen") =>
             /\ {j.k : j \in wave'} \cap (waiting \cup DOMAIN got) = {}
             /\ waiting \ DOMAIN got' \subseteq waiting'
             /\ DOMAIN got \subseteq DOMAIN got']_vars

\* C18 witness: the generator took in a result while another name it had
\* offered stayed waiting, and its latest wave does not hold that name.
C18_Witness ==
    /\ pc = "gen"
    /\ DOMAIN got \ DOMAIN kw # {}
    /\ waiting \ {j.k : j \in wave} # {}

\* C19: while the generator runs, and in the got it ends with, every key of
\* got keeps its value, the keys a send adds were in waiting, and got and
\* waiting have no name in common.
C19_GotGrowsFromWaiting ==
    /\ [](pc = "gen" => DOMAIN got \cap waiting = {})
    /\ [][pc = "gen" =>
             LET after == IF pc' = "gen" THEN got'
                          ELSE IF stagedRes'.kind = "ok" THEN stagedRes'.value
                          ELSE got
             IN  /\ DOMAIN got \subseteq DOMAIN after
                 /\ \A k \in DOMAIN got : after[k] = got[k]
                 /\ DOMAIN after \ DOMAIN got \subseteq waiting]_vars

\* C19 witness: the generator ended with a got that holds the bindings it
\* was started with and two computed names.
C19_Witness ==
    /\ stagedRes.kind = "ok"
    /\ DOMAIN kw # {}
    /\ Cardinality(DOMAIN stagedRes.value \ DOMAIN kw) = 2

\* C20: in one call of the lazy function no producer is invoked twice, and
\* a producer is invoked only when the item is not resolved and every
\* request of it is.
C20_LazyInvokesOnceWhenReady ==
    /\ [](\A k \in Names : calls[k] <= 1)
    /\ [][\A k \in Names :
             calls'[k] > calls[k] =>
                 /\ pc = "lazy"
                 /\ k \notin DOMAIN got
                 /\ _graph[k].requests \subseteq DOMAIN got
                 /\ got' = Put(got, k, Apply(k, Restrict(got, _graph[k].requests)))]_vars

\* C20 witness: a node that is no target was invoked once and is still on
\* the work stack, pushed there for another dependent.
C20_Witness ==
    /\ pc = "lazy"
    /\ \E k \in Names :
           /\ calls[k] = 1
           /\ k \in Range(order)
           /\ k \notin Range(args)

====
